---------------------------- MODULE Spec2Model ----------------------------
(***************************************************************************)
(* Model of the quotation workflow of src/supplier_quotation_system.py     *)
(* (class SupplierQuotationSystem): criar_solicitacao, registrar_proposta, *)
(* comparar_propostas and selecionar_vencedora over the five SQLite tables *)
(* created by init_tables.                                                 *)
(*                                                                         *)
(* Every method opens its own sqlite3 connection (get_db_connection) with  *)
(* the driver's defaults: the first INSERT/UPDATE of a connection opens a  *)
(* transaction and takes the database's single write lock, the writes stay *)
(* private to that connection until conn.commit(), and conn.close()        *)
(* without a commit discards them.  `db` is the committed store every      *)
(* connection reads, `txn` the private working copy of the connection      *)
(* that holds the write lock, `lock` the holder.                           *)
(*                                                                         *)
(* Five specifications share the tables and the statements:                *)
(*   Spec          selecionar_vencedora statement by statement for two     *)
(*                 callers, the other two writers as whole transactions;   *)
(*   SpecCadastro  criar_solicitacao and registrar_proposta statement by   *)
(*                 statement, with lists that make a statement fail;       *)
(*   SpecComparar  comparar_propostas calls between committed writes;      *)
(*   SpecDesempate the same, each proposal with the time it was made;      *)
(*   SpecPrazo     every call as one step, with the time it read.          *)
(* Two more model the collaborators src/payment_tracking.py                *)
(* (SpecPagamentos) and src/auth.py (SpecAuth) over the same variables.    *)
(***************************************************************************)
EXTENDS Integers, Sequences, FiniteSets, TLC

\* ------------------------------------------------------------- bounds
MaxSolicitacoes == 2
MaxPropostas == 2
MaxComparacoes == 2
MaxItens == 1
MaxLinhas == 1

\* Callers that may run selecionar_vencedora at the same time.
Chamadores == {"c1", "c2"}
\* Values of the inputs.
Codigos == {"MED-001"}
Descricoes == {"Seringa"}
Quantidades == {2}
Unidades == {"UN"}
Fornecedores == {1}
Precos == {1}
Totais == {1, 2}

Nenhum == "nenhum"

VARIABLES
    db,      \* the committed tables
    txn,     \* working copy of the connection holding the write lock
    lock,    \* the caller whose connection holds the write lock, or Nenhum
    chamada, \* each caller's arguments and locals (solicitacao_id, proposta_id,
             \* economia), and the history flag `rival`: another caller's award
             \* of the same request was committed during this call
    pc       \* position of each caller inside selecionar_vencedora
             \* ("True" / "False": it has returned that value)

vars == <<db, txn, lock, pc, chamada>>

\* ------------------------------------------------------------ helpers
SeqAte(S, n) == UNION {[1..k -> S] : k \in 0..n}

RECURSIVE SomaSeq(_)
SomaSeq(s) == IF s = <<>> THEN 0 ELSE Head(s) + SomaSeq(Tail(s))

RECURSIVE SomaConj(_, _)
SomaConj(f, S) ==
    IF S = {} THEN 0
    ELSE LET x == CHOOSE y \in S : TRUE IN f[x] + SomaConj(f, S \ {x})

Max(S) == CHOOSE x \in S : \A y \in S : y <= x
Min(S) == CHOOSE x \in S : \A y \in S : x <= y

\* ------------------------------------------------------------- tables
TabelasVazias ==
    [solicitacoes_cotacao |-> <<>>,
     itens_solicitacao    |-> <<>>,
     propostas_cotacao    |-> <<>>,
     itens_proposta       |-> <<>>,
     comparacao_propostas |-> <<>>]

\* Row ids are AUTOINCREMENT and rows are never deleted: the id is the position.
Ids(tabela) == DOMAIN tabela

PropostasDe(d, sid) ==
    {p \in Ids(d.propostas_cotacao) : d.propostas_cotacao[p].solicitacao_id = sid}

ComparacoesDe(d, sid) ==
    {k \in Ids(d.comparacao_propostas) : d.comparacao_propostas[k].solicitacao_id = sid}

ItensDaProposta(d, p) ==
    {i \in Ids(d.itens_proposta) : d.itens_proposta[i].proposta_id = p}

\* ----------------------------------------------------- SQL statements
\* INSERT INTO solicitacoes_cotacao: status takes its DEFAULT 'enviada'.
InserirSolicitacao(d) ==
    [d EXCEPT !.solicitacoes_cotacao = Append(@, [status |-> "enviada"])]

\* An INSERT that leaves out the quantity column's value and stores 1.
InserirItensQuantidadeFixa(d, sid, itens) ==
    [d EXCEPT !.itens_solicitacao =
        @ \o [k \in 1..Len(itens) |->
                [solicitacao_id |-> sid,
                 codigo_item     |-> itens[k].codigo,
                 descricao_item  |-> itens[k].descricao,
                 quantidade      |-> 1,
                 unidade         |-> itens[k].unidade]]]

\* for item in itens: INSERT INTO itens_solicitacao.
InserirItens(d, sid, itens) ==
    [d EXCEPT !.itens_solicitacao =
        @ \o [k \in 1..Len(itens) |->
                [solicitacao_id |-> sid,
                 codigo_item     |-> itens[k].codigo,
                 descricao_item  |-> itens[k].descricao,
                 quantidade      |-> itens[k].quantidade,
                 unidade         |-> itens[k].unidade]]]

\* valor_total = sum(item['preco_total'] for item in itens_proposta)
ValorTotal(itens) ==
    SomaSeq([k \in 1..Len(itens) |-> itens[k].preco_total])

\* INSERT INTO propostas_cotacao: status takes its DEFAULT 'recebida'.
InserirProposta(d, sid, forn, valor) ==
    [d EXCEPT !.propostas_cotacao =
        Append(@, [solicitacao_id |-> sid, fornecedor_id |-> forn,
                   valor_total |-> valor, status |-> "recebida"])]

\* for item in itens_proposta: INSERT INTO itens_proposta.
InserirItensProposta(d, pid, itens) ==
    [d EXCEPT !.itens_proposta =
        @ \o [k \in 1..Len(itens) |->
                [proposta_id         |-> pid,
                 item_solicitacao_id |-> itens[k].item_solicitacao_id,
                 preco_unitario      |-> itens[k].preco_unitario,
                 preco_total         |-> itens[k].preco_total]]]

\* INSERT INTO comparacao_propostas.
InserirComparacao(d, sid, pid, economia) ==
    [d EXCEPT !.comparacao_propostas =
        Append(@, [solicitacao_id |-> sid, proposta_vencedora_id |-> pid,
                   economia_gerada |-> economia])]

\* UPDATE propostas_cotacao SET status = 'vencedora' WHERE id = ?
AtualizarVencedora(d, pid) ==
    [d EXCEPT !.propostas_cotacao =
        [p \in DOMAIN @ |->
            IF p = pid THEN [@[p] EXCEPT !.status = "vencedora"] ELSE @[p]]]

\* UPDATE propostas_cotacao SET status = 'nao_selecionada'
\* WHERE solicitacao_id = ? AND id != ?
AtualizarDemais(d, sid, pid) ==
    [d EXCEPT !.propostas_cotacao =
        [p \in DOMAIN @ |->
            IF @[p].solicitacao_id = sid /\ p # pid
            THEN [@[p] EXCEPT !.status = "nao_selecionada"] ELSE @[p]]]

\* The UPDATE without its WHERE clause: every request is closed.
AtualizarSolicitacaoSemWhere(d, sid) ==
    [d EXCEPT !.solicitacoes_cotacao =
        [s \in DOMAIN @ |-> [@[s] EXCEPT !.status = "concluida"]]]

\* UPDATE solicitacoes_cotacao SET status = 'concluida' WHERE id = ?
AtualizarSolicitacao(d, sid) ==
    [d EXCEPT !.solicitacoes_cotacao =
        [s \in DOMAIN @ |->
            IF s = sid THEN [@[s] EXCEPT !.status = "concluida"] ELSE @[s]]]

\* ------------------------------------------------- comparar_propostas
ValoresDe(d, sid) ==
    {d.propostas_cotacao[p].valor_total : p \in PropostasDe(d, sid)}

\* propostas[0] / propostas[-1] of the rows ORDER BY valor_total ASC.
MenorValor(d, sid) == Min(ValoresDe(d, sid))
MaiorValor(d, sid) == Max(ValoresDe(d, sid))

\* The division by maior_preco['valor_total'] raises ZeroDivisionError when
\* that total is 0; the except branch then returns {}.
CompararFalha(d, sid) ==
    PropostasDe(d, sid) # {} /\ MaiorValor(d, sid) = 0

EconomiaPotencial(d, sid) == MaiorValor(d, sid) - MenorValor(d, sid)

\* economia = comparacao['analise'].get('economia_potencial', 0):
\* with no proposal 'analise' is {} and the default 0 is taken.
EconomiaDaSelecao(d, sid) ==
    IF PropostasDe(d, sid) = {} THEN 0 ELSE EconomiaPotencial(d, sid)

\* --------------------------------------------------------------- Init
ChamadaVazia ==
    [solicitacao_id |-> 0, proposta_id |-> 0, economia |-> 0, rival |-> FALSE]

Init ==
    /\ db = TabelasVazias
    /\ txn = TabelasVazias
    /\ lock = Nenhum
    /\ pc = [c \in Chamadores |-> "ocioso"]
    /\ chamada = [c \in Chamadores |-> ChamadaVazia]

\* Inputs of the operations.
ItensEntrada ==
    SeqAte([codigo : Codigos, descricao : Descricoes,
            quantidade : Quantidades, unidade : Unidades], MaxItens)
ItemIds == 1..MaxItens
LinhasEntrada ==
    SeqAte([item_solicitacao_id : ItemIds, preco_unitario : Precos,
            preco_total : Totais], MaxLinhas)
SolicitacaoIds == 1..MaxSolicitacoes
PropostaIds == 1..MaxPropostas

\* -------------------------------------------------- criar_solicitacao
\* The request row and its items are written in one transaction and
\* committed; the new id (cursor.lastrowid) is returned.  The first INSERT
\* waits for the write lock.  The except branch (return None) closes the
\* connection without a commit and leaves every table as it was.
CriarSolicitacao(itens) ==
    /\ lock = Nenhum
    /\ Len(db.solicitacoes_cotacao) < MaxSolicitacoes
    /\ LET sid == Len(db.solicitacoes_cotacao) + 1
           novo == InserirItens(InserirSolicitacao(db), sid, itens)
       IN /\ db' = novo
          /\ txn' = novo
    /\ UNCHANGED <<lock, pc, chamada>>

\* ------------------------------------------------- registrar_proposta
\* The proposal row and its line items are written in one transaction
\* and committed; the new id (cursor.lastrowid) is returned.  The first
\* INSERT waits for the write lock.  The except branch (return None)
\* closes the connection without a commit and leaves every table as it was.
RegistrarProposta(sid, forn, itens) ==
    /\ lock = Nenhum
    /\ Len(db.propostas_cotacao) < MaxPropostas
    /\ LET pid == Len(db.propostas_cotacao) + 1
           novo == InserirItensProposta(
                       InserirProposta(db, sid, forn, ValorTotal(itens)),
                       pid, itens)
       IN /\ db' = novo
          /\ txn' = novo
    /\ UNCHANGED <<lock, pc, chamada>>

\* ----------------------------------------------- selecionar_vencedora
Parado(c) == pc[c] \in {"ocioso", "True", "False"}
EmCurso == {c \in Chamadores : ~Parado(c)}

\* comparacao = self.comparar_propostas(solicitacao_id), read on a
\* connection of its own from the committed tables; economia is kept.
SelChamar(c, sid, pid) ==
    /\ pc[c] = "ocioso"
    /\ Len(db.comparacao_propostas) + Cardinality(EmCurso) < MaxComparacoes
    /\ ~CompararFalha(db, sid)
    /\ pc' = [pc EXCEPT ![c] = "inserir"]
    /\ chamada' = [chamada EXCEPT ![c] =
                      [solicitacao_id |-> sid, proposta_id |-> pid,
                       economia |-> EconomiaDaSelecao(db, sid),
                       rival |-> FALSE]]
    /\ UNCHANGED <<db, txn, lock>>

\* comparar_propostas returned {}: comparacao['analise'] raises KeyError
\* before any statement runs, and the call returns False.
SelCompararFalha(c, sid, pid) ==
    /\ pc[c] = "ocioso"
    /\ CompararFalha(db, sid)
    /\ pc' = [pc EXCEPT ![c] = "False"]
    /\ UNCHANGED <<db, txn, lock, chamada>>

\* INSERT INTO comparacao_propostas: the connection's first write, which
\* opens its transaction and takes the write lock (it waits while another
\* connection holds it).
SelInserir(c) ==
    /\ pc[c] = "inserir"
    /\ lock = Nenhum
    /\ lock' = c
    /\ txn' = InserirComparacao(db, chamada[c].solicitacao_id,
                                chamada[c].proposta_id, chamada[c].economia)
    /\ pc' = [pc EXCEPT ![c] = "vencedora"]
    /\ UNCHANGED <<db, chamada>>

SelVencedora(c) ==
    /\ pc[c] = "vencedora"
    /\ txn' = AtualizarVencedora(txn, chamada[c].proposta_id)
    /\ pc' = [pc EXCEPT ![c] = "demais"]
    /\ UNCHANGED <<db, lock, chamada>>

SelDemais(c) ==
    /\ pc[c] = "demais"
    /\ txn' = AtualizarDemais(txn, chamada[c].solicitacao_id,
                              chamada[c].proposta_id)
    /\ pc' = [pc EXCEPT ![c] = "solicitacao"]
    /\ UNCHANGED <<db, lock, chamada>>

SelSolicitacao(c) ==
    /\ pc[c] = "solicitacao"
    /\ txn' = AtualizarSolicitacao(txn, chamada[c].solicitacao_id)
    /\ pc' = [pc EXCEPT ![c] = "commit"]
    /\ UNCHANGED <<db, lock, chamada>>

\* What conn.commit() makes of the committed tables `d`, given the
\* connection's working copy `t`.
Confirmar(d, t) == t

\* A connection in autocommit mode: every statement is durable at once.
DescartarAutocommit(d, t) == t

\* What conn.close() without a commit makes of them.
Descartar(d, t) == d

\* conn.commit(); return True.  `rival` of every other call in progress
\* on the same request records that this award was committed meanwhile.
SelCommit(c) ==
    /\ pc[c] = "commit"
    /\ db' = Confirmar(db, txn)
    /\ txn' = db'
    /\ lock' = Nenhum
    /\ pc' = [pc EXCEPT ![c] = "True"]
    /\ chamada' = [d \in Chamadores |->
          IF d = c THEN ChamadaVazia
          ELSE IF ~Parado(d)
                  /\ chamada[d].solicitacao_id = chamada[c].solicitacao_id
               THEN [chamada[d] EXCEPT !.rival = TRUE]
               ELSE chamada[d]]

\* except Exception: return False, at any statement (the wait for the
\* write lock timed out, a storage error); finally: conn.close() drops
\* the uncommitted writes and the lock.
SelErro(c) ==
    /\ ~Parado(c)
    /\ pc' = [pc EXCEPT ![c] = "False"]
    /\ db' = IF lock = c THEN Descartar(db, txn) ELSE db
    /\ lock' = IF lock = c THEN Nenhum ELSE lock
    /\ txn' = IF lock = c THEN db' ELSE txn
    /\ chamada' = [chamada EXCEPT ![c] = ChamadaVazia]

\* The caller has the returned value and is free to call again.
SelFim(c) ==
    /\ pc[c] \in {"True", "False"}
    /\ pc' = [pc EXCEPT ![c] = "ocioso"]
    /\ UNCHANGED <<db, txn, lock, chamada>>

\* --------------------------------------------------------------- Next
Next ==
    \/ \E itens \in ItensEntrada : CriarSolicitacao(itens)
    \/ \E sid \in SolicitacaoIds, forn \in Fornecedores, itens \in LinhasEntrada :
          RegistrarProposta(sid, forn, itens)
    \/ \E c \in Chamadores, sid \in SolicitacaoIds, pid \in PropostaIds :
          SelChamar(c, sid, pid)
    \/ \E c \in Chamadores, sid \in SolicitacaoIds, pid \in PropostaIds :
          SelCompararFalha(c, sid, pid)
    \/ \E c \in Chamadores : SelInserir(c)
    \/ \E c \in Chamadores : SelVencedora(c)
    \/ \E c \in Chamadores : SelDemais(c)
    \/ \E c \in Chamadores : SelSolicitacao(c)
    \/ \E c \in Chamadores : SelCommit(c)
    \/ \E c \in Chamadores : SelErro(c)
    \/ \E c \in Chamadores : SelFim(c)

Spec == Init /\ [][Next]_vars

\* ------------------------------------------------------------- claims
\* The step in which selecionar_vencedora returns True to caller c.
SelRetornaTrue(c) == pc[c] = "commit" /\ pc'[c] = "True"

\* The call of c is about a stored request and one of its own proposals.
ChamadaBemFormada(c) ==
    /\ chamada[c].solicitacao_id \in Ids(db.solicitacoes_cotacao)
    /\ chamada[c].proposta_id \in PropostasDe(db, chamada[c].solicitacao_id)

\* Every stored proposal is under a stored request.
PropostasSobSolicitacoes(d) ==
    \A q \in Ids(d.propostas_cotacao) :
        d.propostas_cotacao[q].solicitacao_id \in Ids(d.solicitacoes_cotacao)

StatusDasPropostas(d, sid, st) ==
    {p \in PropostasDe(d, sid) : d.propostas_cotacao[p].status = st}

\* C1: selecionar_vencedora is one-shot per request: a call made on a
\* stored request after its award was committed never returns True
\* (whatever proposal of the request it names), so the request never has
\* more than one comparacao_propostas row.
C1_SelecaoUmaVez ==
    [][\A c \in Chamadores :
          (SelRetornaTrue(c) /\ ChamadaBemFormada(c) /\ ~chamada[c].rival) =>
             /\ ComparacoesDe(db, chamada[c].solicitacao_id) = {}
             /\ Cardinality(ComparacoesDe(db', chamada[c].solicitacao_id)) <= 1]_vars

\* C2: after a successful selecionar_vencedora(r, p), for a stored request
\* r and a stored proposal p, exactly one proposal of r is 'vencedora',
\* every other proposal of r is 'nao_selecionada', and winning + rejected
\* equals the number of proposals r had before the award.
C2_UmaVencedoraDemaisRejeitadas ==
    [][\A c \in Chamadores :
          (/\ SelRetornaTrue(c)
           /\ chamada[c].solicitacao_id \in Ids(db.solicitacoes_cotacao)
           /\ chamada[c].proposta_id \in Ids(db.propostas_cotacao)
           /\ PropostasSobSolicitacoes(db)) =>
             LET r == chamada[c].solicitacao_id
                 v == StatusDasPropostas(db', r, "vencedora")
                 n == StatusDasPropostas(db', r, "nao_selecionada")
             IN /\ Cardinality(v) = 1
                /\ PropostasDe(db', r) = v \cup n
                /\ Cardinality(v) + Cardinality(n)
                     = Cardinality(PropostasDe(db, r))]_vars

\* C3: of two selecionar_vencedora calls on the same stored request that
\* run at the same time at most one returns True: a call during which
\* another caller's award of the same request was committed does not
\* succeed, and the request ends with a single award decision.
C3_ConcorrentesNaoVencemAmbas ==
    [][\A c \in Chamadores :
          (SelRetornaTrue(c) /\ ChamadaBemFormada(c)) =>
             /\ ~chamada[c].rival
             /\ Cardinality(ComparacoesDe(db', chamada[c].solicitacao_id)) = 1]_vars

\* C4: the award is atomic.  The committed tables change in a step of
\* selecionar_vencedora only when it returns True, and then all four
\* effects appear together (the comparacao_propostas row, 'vencedora' on
\* the chosen proposal, 'nao_selecionada' on the other proposals of the
\* request, 'concluida' on the request) with nothing else changed; every
\* other step of a call, a failure at any statement included, leaves the
\* committed tables as they were.
C4_SelecaoAtomica ==
    [][\A c \in Chamadores :
          LET r == chamada[c].solicitacao_id
              p == chamada[c].proposta_id
          IN /\ SelRetornaTrue(c) =>
                  /\ db'.comparacao_propostas =
                        Append(db.comparacao_propostas,
                               [solicitacao_id |-> r,
                                proposta_vencedora_id |-> p,
                                economia_gerada |-> chamada[c].economia])
                  /\ DOMAIN db'.propostas_cotacao = DOMAIN db.propostas_cotacao
                  /\ \A q \in Ids(db.propostas_cotacao) :
                        db'.propostas_cotacao[q] =
                          [db.propostas_cotacao[q] EXCEPT !.status =
                              IF q = p THEN "vencedora"
                              ELSE IF db.propostas_cotacao[q].solicitacao_id = r
                                   THEN "nao_selecionada" ELSE @]
                  /\ DOMAIN db'.solicitacoes_cotacao = DOMAIN db.solicitacoes_cotacao
                  /\ \A s \in Ids(db.solicitacoes_cotacao) :
                        db'.solicitacoes_cotacao[s].status =
                          IF s = r THEN "concluida"
                          ELSE db.solicitacoes_cotacao[s].status
                  /\ db'.itens_solicitacao = db.itens_solicitacao
                  /\ db'.itens_proposta = db.itens_proposta
             /\ (pc'[c] # pc[c] /\ ~SelRetornaTrue(c)) => db' = db]_vars

\* C4 witness: a call has just returned True for a request that now is
\* 'concluida' with one proposal 'vencedora' and another 'nao_selecionada'
\* and has its award decision stored.
C4_Witness ==
    \E c \in Chamadores, r \in Ids(db.solicitacoes_cotacao) :
        /\ pc[c] = "True"
        /\ db.solicitacoes_cotacao[r].status = "concluida"
        /\ ComparacoesDe(db, r) # {}
        /\ StatusDasPropostas(db, r, "vencedora") # {}
        /\ StatusDasPropostas(db, r, "nao_selecionada") # {}
        /\ \E k \in ComparacoesDe(db, r) :
              db.comparacao_propostas[k].proposta_vencedora_id
                 \in StatusDasPropostas(db, r, "vencedora")

\* C5: selecionar_vencedora(r, p) returns True only when the stored
\* proposal p belongs to r and is 'recebida' when its writes are made; for
\* a p of another request, or one already 'vencedora' or
\* 'nao_selecionada', it fails and changes nothing.
C5_SoPropostaRecebidaDaSolicitacao ==
    [][\A c \in Chamadores :
          (/\ SelRetornaTrue(c)
           /\ chamada[c].solicitacao_id \in Ids(db.solicitacoes_cotacao)
           /\ chamada[c].proposta_id \in Ids(db.propostas_cotacao)
           /\ PropostasSobSolicitacoes(db)) =>
             LET q == db.propostas_cotacao[chamada[c].proposta_id]
             IN /\ q.solicitacao_id = chamada[c].solicitacao_id
                /\ q.status = "recebida"]_vars

\* C6: selecionar_vencedora(r, p) fails when request r or proposal p is
\* not stored, and then inserts no comparacao_propostas row and changes no
\* status.
C6_FalhaSeInexistente ==
    [][\A c \in Chamadores :
          (/\ pc[c] \notin {"ocioso", "True", "False"}
           /\ pc'[c] \in {"True", "False"}
           /\ \/ chamada[c].solicitacao_id \notin Ids(db.solicitacoes_cotacao)
              \/ chamada[c].proposta_id \notin Ids(db.propostas_cotacao)) =>
             /\ pc'[c] = "False"
             /\ db' = db]_vars

\* quantidade of the request line item a proposal line refers to.
QuantidadeDoItem(d, i) ==
    d.itens_solicitacao[d.itens_proposta[i].item_solicitacao_id].quantidade

LinhaCoerente(d, i) ==
    d.itens_proposta[i].preco_total
        = d.itens_proposta[i].preco_unitario * QuantidadeDoItem(d, i)

\* The line refers to a stored item of the request of its own proposal.
LinhaDaSolicitacao(d, i) ==
    LET it == d.itens_proposta[i].item_solicitacao_id
    IN /\ it \in Ids(d.itens_solicitacao)
       /\ d.itens_solicitacao[it].solicitacao_id
            = d.propostas_cotacao[d.itens_proposta[i].proposta_id].solicitacao_id

\* C7: every stored proposal line item (that prices an item of its
\* proposal's request) has preco_total = preco_unitario * quantidade of the
\* request line item it refers to.
C7_TotalDaLinhaRecalculado ==
    \A i \in Ids(db.itens_proposta) :
        LinhaDaSolicitacao(db, i) => LinhaCoerente(db, i)

\* C8: every stored proposal has valor_total equal to the sum of the
\* preco_total of its own stored line items, each of these being
\* preco_unitario * quantidade of the request item, and is stored with
\* status 'recebida'.
C8_ValorTotalSomaDasLinhas ==
    [][/\ \A p \in Ids(db'.propostas_cotacao) :
             /\ db'.propostas_cotacao[p].valor_total
                  = SomaConj([i \in ItensDaProposta(db', p) |->
                                 db'.itens_proposta[i].preco_total],
                             ItensDaProposta(db', p))
             /\ \A i \in ItensDaProposta(db', p) :
                   LinhaDaSolicitacao(db', i) => LinhaCoerente(db', i)
       /\ \A p \in Ids(db'.propostas_cotacao) \ Ids(db.propostas_cotacao) :
             db'.propostas_cotacao[p].status = "recebida"]_vars

\* C9: once a request is 'concluida', one of its proposals having won, no
\* proposal is added under it.
C9_SemPropostaAposConclusao ==
    [][\A sid \in Ids(db.solicitacoes_cotacao) :
          (/\ db.solicitacoes_cotacao[sid].status = "concluida"
           /\ StatusDasPropostas(db, sid, "vencedora") # {})
             => PropostasDe(db', sid) = PropostasDe(db, sid)]_vars

\* C10: registrar_proposta with an empty list of line prices stores no
\* proposal: every proposal stored under a stored request has at least one
\* line item.
C10_SemPropostaVazia ==
    \A p \in Ids(db.propostas_cotacao) :
        db.propostas_cotacao[p].solicitacao_id \in Ids(db.solicitacoes_cotacao)
            => ItensDaProposta(db, p) # {}

\* ------------- criar_solicitacao and registrar_proposta, step by step
\* The two writers one statement at a time, with the lists a caller may
\* pass: a dict of the list may lack a key the INSERT reads (KeyError), a
\* quantity may be 0, a unit price negative.  Each call runs on a
\* connection of its own: the first INSERT opens the transaction and takes
\* the write lock, conn.commit() publishes the rows, and the except branch
\* returns None after which conn.close() drops the uncommitted rows.
\* pc "Id" / "None": the call has returned the new id / None; until the
\* caller goes on, chamada keeps the id (the value returned with "Id") and
\* the loop index k the call had reached.
MaxItensLista == 2
MaxLinhasLista == 2
MaxPropostasCadastro == 1

CodigosCadastro == {"MED-001", "MED-002"}
QuantidadesCadastro == {0, 2}
PrecosCadastro == {-1, 1}
TotaisCadastro == {2}
\* `completo`: the dict has every key the INSERT reads (one dict that
\* lacks a key stands for all of them).
ItensDeCadastro ==
    {i \in [codigo : CodigosCadastro, descricao : Descricoes,
            quantidade : QuantidadesCadastro, unidade : Unidades,
            completo : BOOLEAN] :
        i.completo \/ (i.codigo = "MED-001" /\ i.quantidade = 2)}

ItensCadastro == SeqAte(ItensDeCadastro, MaxItensLista)

\* `completo`: the dict has the keys 'item_solicitacao_id' and
\* 'preco_unitario' ('preco_total' it has: the sum was taken before).
LinhasDeCadastro ==
    {l \in [item_solicitacao_id : ItemIds,
            preco_unitario : PrecosCadastro, preco_total : TotaisCadastro,
            completo : BOOLEAN] :
        l.completo \/ l.preco_unitario = 1}

LinhasCadastro == SeqAte(LinhasDeCadastro, MaxLinhasLista)

\* INSERT INTO solicitacoes_cotacao; solicitacao_id = cursor.lastrowid.
CriarInserir(c, itens) ==
    /\ pc[c] = "ocioso"
    /\ lock = Nenhum
    /\ Len(db.solicitacoes_cotacao) < MaxSolicitacoes
    /\ lock' = c
    /\ txn' = InserirSolicitacao(db)
    /\ pc' = [pc EXCEPT ![c] = "criar_itens"]
    /\ chamada' = [chamada EXCEPT ![c] =
          [itens |-> itens, k |-> 1, id |-> Len(db.solicitacoes_cotacao) + 1]]
    /\ UNCHANGED db

\* for item in itens: INSERT INTO itens_solicitacao, one turn of the loop.
CriarItem(c) ==
    /\ pc[c] = "criar_itens"
    /\ chamada[c].k <= Len(chamada[c].itens)
    /\ chamada[c].itens[chamada[c].k].completo
    /\ txn' = InserirItens(txn, chamada[c].id,
                           <<chamada[c].itens[chamada[c].k]>>)
    /\ chamada' = [chamada EXCEPT ![c].k = @ + 1]
    /\ UNCHANGED <<db, lock, pc>>

\* item['...'] raises KeyError: except Exception: return None;
\* finally: conn.close().
CriarItemMalformado(c) ==
    /\ pc[c] = "criar_itens"
    /\ chamada[c].k <= Len(chamada[c].itens)
    /\ ~chamada[c].itens[chamada[c].k].completo
    /\ db' = Descartar(db, txn)
    /\ txn' = db'
    /\ lock' = Nenhum
    /\ pc' = [pc EXCEPT ![c] = "None"]
    /\ chamada' = [chamada EXCEPT ![c].itens = <<>>]

\* conn.commit(); return solicitacao_id.
CriarCommit(c) ==
    /\ pc[c] = "criar_itens"
    /\ chamada[c].k > Len(chamada[c].itens)
    /\ db' = Confirmar(db, txn)
    /\ txn' = db'
    /\ lock' = Nenhum
    /\ pc' = [pc EXCEPT ![c] = "Id"]
    /\ chamada' = [chamada EXCEPT ![c].itens = <<>>]

\* valor_total = sum(...); INSERT INTO propostas_cotacao;
\* proposta_id = cursor.lastrowid.
RegistrarInserir(c, sid, forn, itens) ==
    /\ pc[c] = "ocioso"
    /\ lock = Nenhum
    /\ Len(db.propostas_cotacao) < MaxPropostasCadastro
    /\ lock' = c
    /\ txn' = InserirProposta(db, sid, forn, ValorTotal(itens))
    /\ pc' = [pc EXCEPT ![c] = "registrar_itens"]
    /\ chamada' = [chamada EXCEPT ![c] =
          [itens |-> itens, k |-> 1, id |-> Len(db.propostas_cotacao) + 1]]
    /\ UNCHANGED db

\* for item in itens_proposta: INSERT INTO itens_proposta, one turn.
RegistrarItem(c) ==
    /\ pc[c] = "registrar_itens"
    /\ chamada[c].k <= Len(chamada[c].itens)
    /\ chamada[c].itens[chamada[c].k].completo
    /\ txn' = InserirItensProposta(txn, chamada[c].id,
                                   <<chamada[c].itens[chamada[c].k]>>)
    /\ chamada' = [chamada EXCEPT ![c].k = @ + 1]
    /\ UNCHANGED <<db, lock, pc>>

\* item['...'] raises KeyError: except Exception: return None;
\* finally: conn.close().
RegistrarItemMalformado(c) ==
    /\ pc[c] = "registrar_itens"
    /\ chamada[c].k <= Len(chamada[c].itens)
    /\ ~chamada[c].itens[chamada[c].k].completo
    /\ db' = Descartar(db, txn)
    /\ txn' = db'
    /\ lock' = Nenhum
    /\ pc' = [pc EXCEPT ![c] = "None"]
    /\ chamada' = [chamada EXCEPT ![c].itens = <<>>]

\* conn.commit(); return proposta_id.
RegistrarCommit(c) ==
    /\ pc[c] = "registrar_itens"
    /\ chamada[c].k > Len(chamada[c].itens)
    /\ db' = Confirmar(db, txn)
    /\ txn' = db'
    /\ lock' = Nenhum
    /\ pc' = [pc EXCEPT ![c] = "Id"]
    /\ chamada' = [chamada EXCEPT ![c].itens = <<>>]

\* A statement or the commit fails for a reason of the storage (disk
\* full, I/O error): the except branch returns None and conn.close()
\* drops the rows written so far.
CadastroErro(c) ==
    /\ pc[c] \in {"criar_itens", "registrar_itens"}
    /\ db' = Descartar(db, txn)
    /\ txn' = db'
    /\ lock' = Nenhum
    /\ pc' = [pc EXCEPT ![c] = "None"]
    /\ chamada' = [chamada EXCEPT ![c].itens = <<>>]

\* The caller has the returned value and is free to call again.
CadastroFim(c) ==
    /\ pc[c] \in {"Id", "None"}
    /\ pc' = [pc EXCEPT ![c] = "ocioso"]
    /\ chamada' = [chamada EXCEPT ![c] = ChamadaVazia]
    /\ UNCHANGED <<db, txn, lock>>

NextCadastro ==
    \/ \E c \in Chamadores, itens \in ItensCadastro : CriarInserir(c, itens)
    \/ \E c \in Chamadores : CriarItem(c)
    \/ \E c \in Chamadores : CriarItemMalformado(c)
    \/ \E c \in Chamadores : CriarCommit(c)
    \/ \E c \in Chamadores, sid \in SolicitacaoIds, forn \in Fornecedores,
          itens \in LinhasCadastro : RegistrarInserir(c, sid, forn, itens)
    \/ \E c \in Chamadores : RegistrarItem(c)
    \/ \E c \in Chamadores : RegistrarItemMalformado(c)
    \/ \E c \in Chamadores : RegistrarCommit(c)
    \/ \E c \in Chamadores : CadastroErro(c)
    \/ \E c \in Chamadores : CadastroFim(c)

SpecCadastro == Init /\ [][NextCadastro]_vars

\* ------------------------------------------------ claims, second part
ItensDaSolicitacao(d, sid) ==
    {i \in Ids(d.itens_solicitacao) : d.itens_solicitacao[i].solicitacao_id = sid}

\* C11: registrar_proposta with a solicitacao_id that matches no stored
\* request stores nothing: every stored proposal references a stored
\* request.
C11_PropostaDeSolicitacaoExistente ==
    \A p \in Ids(db.propostas_cotacao) :
        db.propostas_cotacao[p].solicitacao_id \in Ids(db.solicitacoes_cotacao)

\* C12: registrar_proposta stores nothing when a line refers to a request
\* item that is not of the proposal's request or carries a negative unit
\* price: every stored line of a proposal (under a stored request that has
\* items) refers to an item of that request and has preco_unitario >= 0.
C12_LinhasDaSolicitacaoSemPrecoNegativo ==
    \A i \in Ids(db.itens_proposta) :
        LET r == db.propostas_cotacao[db.itens_proposta[i].proposta_id].solicitacao_id
        IN (r \in Ids(db.solicitacoes_cotacao) /\ ItensDaSolicitacao(db, r) # {}) =>
              /\ LinhaDaSolicitacao(db, i)
              /\ db.itens_proposta[i].preco_unitario >= 0

\* The items list is valid: not empty, every dict complete, every
\* quantity positive.
ItensValidos(itens) ==
    /\ itens # <<>>
    /\ \A k \in 1..Len(itens) : itens[k].completo /\ itens[k].quantidade > 0

\* criar_solicitacao returns the new id to caller c in this step.
CriarRetornaId(c) == pc[c] = "criar_itens" /\ pc'[c] = "Id"

\* C13: a successful criar_solicitacao of a valid items list adds one
\* request, with status 'enviada', and exactly len(itens) request items
\* after the stored ones: the k-th has the new request's id and the code,
\* description, quantity and unit of the k-th submitted item; no other
\* table changes.
C13_ItensGravadosComoEnviados ==
    [][\A c \in Chamadores :
          (CriarRetornaId(c) /\ ItensValidos(chamada[c].itens)) =>
             LET itens == chamada[c].itens
                 sid == Len(db.solicitacoes_cotacao) + 1
             IN /\ chamada[c].id = sid
                /\ db'.solicitacoes_cotacao =
                      Append(db.solicitacoes_cotacao, [status |-> "enviada"])
                /\ Len(db'.itens_solicitacao)
                      = Len(db.itens_solicitacao) + Len(itens)
                /\ \A k \in 1..Len(db.itens_solicitacao) :
                      db'.itens_solicitacao[k] = db.itens_solicitacao[k]
                /\ \A k \in 1..Len(itens) :
                      db'.itens_solicitacao[Len(db.itens_solicitacao) + k] =
                         [solicitacao_id  |-> sid,
                          codigo_item     |-> itens[k].codigo,
                          descricao_item  |-> itens[k].descricao,
                          quantidade      |-> itens[k].quantidade,
                          unidade         |-> itens[k].unidade]
                /\ db'.propostas_cotacao = db.propostas_cotacao
                /\ db'.itens_proposta = db.itens_proposta
                /\ db'.comparacao_propostas = db.comparacao_propostas]_vars

\* C13 witness: a call has just returned the id of a request stored as
\* 'enviada' with two items of different codes, in the order submitted.
C13_Witness ==
    \E c \in Chamadores :
        /\ pc[c] = "Id"
        /\ chamada[c].id \in Ids(db.solicitacoes_cotacao)
        /\ db.solicitacoes_cotacao[chamada[c].id].status = "enviada"
        /\ \E i \in Ids(db.itens_solicitacao) :
              /\ i + 1 \in Ids(db.itens_solicitacao)
              /\ ItensDaSolicitacao(db, chamada[c].id) = {i, i + 1}
              /\ db.itens_solicitacao[i].codigo_item = "MED-002"
              /\ db.itens_solicitacao[i + 1].codigo_item = "MED-001"
              /\ db.itens_solicitacao[i].quantidade = 2

\* C14: criar_solicitacao stores nothing when the items list is empty or
\* an item has quantity <= 0: every stored request has at least one item
\* and every stored request item has quantidade > 0.
C14_SolicitacaoComItensPositivos ==
    /\ \A r \in Ids(db.solicitacoes_cotacao) : ItensDaSolicitacao(db, r) # {}
    /\ \A i \in Ids(db.itens_solicitacao) : db.itens_solicitacao[i].quantidade > 0

\* criar_solicitacao / registrar_proposta returns None to caller c.
CriarRetornaNone(c) == pc[c] = "criar_itens" /\ pc'[c] = "None"
RegistrarRetornaNone(c) == pc[c] = "registrar_itens" /\ pc'[c] = "None"

\* C15: criar_solicitacao is all-or-nothing.  When the INSERT of an item
\* fails after the request row was written (the k-th dict lacks a key, or
\* the storage fails), the call returns None and the committed tables are
\* the ones before the call: neither the request row nor an earlier item
\* is visible; no step of the call other than its commit changes them.
C15_CriarTudoOuNada ==
    [][\A c \in Chamadores :
          /\ (pc[c] = "criar_itens" /\ pc'[c] # "Id") =>
                /\ db' = db
                /\ Len(db.solicitacoes_cotacao) < chamada[c].id
                /\ ItensDaSolicitacao(db', chamada[c].id) = {}
          /\ (/\ pc[c] = "criar_itens"
              /\ pc'[c] # pc[c]
              /\ \E k \in 1..Len(chamada[c].itens) : ~chamada[c].itens[k].completo)
                => CriarRetornaNone(c)]_vars

\* C15 witness: a call has returned None after it had written the row of
\* a second request and that request's first item, and the request it was
\* creating is not stored.
C15_Witness ==
    \E c \in Chamadores :
        /\ pc[c] = "None"
        /\ chamada[c].k = 2
        /\ chamada[c].id = Len(db.solicitacoes_cotacao) + 1
        /\ chamada[c].id = 2

\* C16: registrar_proposta is all-or-nothing.  When the INSERT of a line
\* fails after the proposal row was written, the call returns None and the
\* committed tables are the ones before the call: neither the proposal row
\* nor a line of it is visible; no step of the call other than its commit
\* changes them.
C16_RegistrarTudoOuNada ==
    [][\A c \in Chamadores :
          /\ (pc[c] = "registrar_itens" /\ pc'[c] # "Id") =>
                /\ db' = db
                /\ Len(db.propostas_cotacao) < chamada[c].id
                /\ ItensDaProposta(db', chamada[c].id) = {}
          /\ (/\ pc[c] = "registrar_itens"
              /\ pc'[c] # pc[c]
              /\ \E k \in 1..Len(chamada[c].itens) : ~chamada[c].itens[k].completo)
                => RegistrarRetornaNone(c)]_vars

\* C16 witness: a call has returned None after it had written the
\* proposal row and the proposal's first line, and no proposal and no line
\* is stored.
C16_Witness ==
    \E c \in Chamadores :
        /\ pc[c] = "None"
        /\ chamada[c].k = 2
        /\ chamada[c].id = 1
        /\ db.propostas_cotacao = <<>>
        /\ db.itens_proposta = <<>>
        /\ db.solicitacoes_cotacao # <<>>

\* C17: the status of a stored request only moves from 'enviada' to
\* 'concluida'.  A request is never removed, a new one is 'enviada', the
\* status changes only in the step in which a selecionar_vencedora call on
\* that request returns True, a 'concluida' request has an award decision
\* stored, and a 'concluida' request is 'concluida' ever after.
C17_EnviadaParaConcluida ==
    [][/\ \A sid \in Ids(db.solicitacoes_cotacao) :
             /\ sid \in Ids(db'.solicitacoes_cotacao)
             /\ db.solicitacoes_cotacao[sid].status = "concluida"
                  => db'.solicitacoes_cotacao[sid].status = "concluida"
             /\ db'.solicitacoes_cotacao[sid].status # db.solicitacoes_cotacao[sid].status
                  => /\ db.solicitacoes_cotacao[sid].status = "enviada"
                     /\ db'.solicitacoes_cotacao[sid].status = "concluida"
                     /\ \E c \in Chamadores :
                           SelRetornaTrue(c) /\ chamada[c].solicitacao_id = sid
       /\ \A sid \in Ids(db'.solicitacoes_cotacao) :
             /\ sid \notin Ids(db.solicitacoes_cotacao)
                  => db'.solicitacoes_cotacao[sid].status = "enviada"
             /\ db'.solicitacoes_cotacao[sid].status = "concluida"
                  => ComparacoesDe(db', sid) # {}]_vars

\* C17 witness: a selecionar_vencedora call has just returned True, its
\* request is 'concluida' with an award decision, and another request,
\* with a proposal of its own, is still 'enviada'.
C17_Witness ==
    \E c \in Chamadores, r, s \in Ids(db.solicitacoes_cotacao) :
        /\ pc[c] = "True"
        /\ db.solicitacoes_cotacao[r].status = "concluida"
        /\ ComparacoesDe(db, r) # {}
        /\ db.solicitacoes_cotacao[s].status = "enviada"
        /\ PropostasDe(db, s) # {}
        /\ ComparacoesDe(db, s) = {}

\* C18: while a stored request is 'enviada', every proposal stored under
\* it is 'recebida': a proposal enters as 'recebida', and no step (of a
\* selecionar_vencedora call on a stored request, whatever request that
\* is) moves a 'recebida' proposal of a request that stays 'enviada' to
\* 'vencedora' or 'nao_selecionada'.
C18_AntesDaSelecaoTodasRecebidas ==
    [][(\A c \in Chamadores :
           SelRetornaTrue(c) =>
              chamada[c].solicitacao_id \in Ids(db.solicitacoes_cotacao)) =>
         \A sid \in Ids(db'.solicitacoes_cotacao) :
            db'.solicitacoes_cotacao[sid].status = "enviada" =>
               \A p \in PropostasDe(db', sid) :
                  (p \in Ids(db.propostas_cotacao)
                      => db.propostas_cotacao[p].status = "recebida")
                  => db'.propostas_cotacao[p].status = "recebida"]_vars

\* ------------------------------------- comparar_propostas, as a call
\* A Python dict without keys.
DictVazio == [k \in {} |-> 0]

\* The order in which the SELECT returns rows of equal valor_total is not
\* fixed by ORDER BY p.valor_total ASC: it is the one of the SQLite library
\* of the process, here by ascending or by descending id.
Ordens == {"asc", "desc"}

\* datetime.now() of a call.
Relogio == {1, 2}

\* The callers of comparar_propostas (a call reads the committed tables
\* and writes nothing: one caller shows all a second one would).
Leitores == {"c1"}

\* SELECT p.*, p.fornecedor_id as fornecedor_nome ... WHERE
\* p.solicitacao_id = ? ORDER BY p.valor_total ASC: the ids in that order.
RECURSIVE OrdenarPorValor(_, _, _)
OrdenarPorValor(d, S, ordem) ==
    IF S = {} THEN <<>>
    ELSE LET m == Min({d.propostas_cotacao[p].valor_total : p \in S})
             iguais == {p \in S : d.propostas_cotacao[p].valor_total = m}
             p == IF ordem = "asc" THEN Min(iguais) ELSE Max(iguais)
         IN <<p>> \o OrdenarPorValor(d, S \ {p}, ordem)

\* dict(row) of a proposal.
LinhaDaProposta(d, p) ==
    [id              |-> p,
     solicitacao_id  |-> d.propostas_cotacao[p].solicitacao_id,
     fornecedor_id   |-> d.propostas_cotacao[p].fornecedor_id,
     valor_total     |-> d.propostas_cotacao[p].valor_total,
     status          |-> d.propostas_cotacao[p].status,
     fornecedor_nome |-> d.propostas_cotacao[p].fornecedor_id]

\* propostas = [dict(row) for row in cursor.fetchall()]
PropostasOrdenadas(d, sid, ordem) ==
    LET ids == OrdenarPorValor(d, PropostasDe(d, sid), ordem)
    IN [k \in 1..Len(ids) |-> LinhaDaProposta(d, ids[k])]

\* The quotient a / b of a true division, kept as the pair.
Quociente(a, b) == [num |-> a, den |-> b]

\* analise = {...} of a non-empty list whose highest total is not 0.
Analise(propostas) ==
    LET menor_preco == propostas[1]
        maior_preco == propostas[Len(propostas)]
    IN [total_propostas |-> Len(propostas),
        menor_preco |-> [fornecedor  |-> menor_preco.fornecedor_nome,
                         valor       |-> menor_preco.valor_total,
                         proposta_id |-> menor_preco.id],
        maior_preco |-> [fornecedor |-> maior_preco.fornecedor_nome,
                         valor      |-> maior_preco.valor_total],
        preco_medio |->
            Quociente(SomaSeq([k \in 1..Len(propostas) |-> propostas[k].valor_total]),
                      Len(propostas)),
        economia_potencial |-> maior_preco.valor_total - menor_preco.valor_total,
        variacao_percentual |->
            Quociente((maior_preco.valor_total - menor_preco.valor_total) * 100,
                      maior_preco.valor_total)]

\* The value comparar_propostas returns: the explicit empty result when
\* the request has no proposal, {} when the division by the highest total
\* raises ZeroDivisionError, the ranking with its analysis otherwise.
CompararPropostas(d, sid, ordem, agora) ==
    LET propostas == PropostasOrdenadas(d, sid, ordem)
    IN IF propostas = <<>>
       THEN [propostas |-> <<>>, analise |-> DictVazio]
       ELSE IF propostas[Len(propostas)].valor_total = 0
            THEN DictVazio
            ELSE [propostas |-> propostas, analise |-> Analise(propostas),
                  timestamp |-> agora]

\* A compare that records itself in comparacao_propostas.
CompararTabelasComRegistro(d, sid) == InserirComparacao(d, sid, 0, 0)

\* The tables after a call: it runs the one SELECT and closes its
\* connection.
CompararTabelas(d, sid) == d

\* Before a caller's first call.  `ordem` is the tie order of the SQLite
\* library, the same for every caller of a run.
ChamadaComparar(ordem) ==
    [solicitacao_id |-> 0, resultado |-> DictVazio, visto |-> TabelasVazias,
     repetida |-> FALSE, ordem |-> ordem]

InitComparar ==
    /\ db = TabelasVazias
    /\ txn = TabelasVazias
    /\ lock = Nenhum
    /\ pc = [c \in Chamadores |-> "ocioso"]
    /\ \E ordem \in Ordens :
          chamada = [c \in Chamadores |-> ChamadaComparar(ordem)]

\* comparar_propostas(sid) by caller c at time `agora`, read from the
\* committed tables on a connection of its own.  The caller keeps the
\* value returned (pc "comparado"); `visto` and `repetida` are history: the
\* tables the call read, and whether it repeated the caller's previous
\* call, for the same request, with no committed write in between.
Comparar(c, sid, agora) ==
    /\ db' = CompararTabelas(db, sid)
    /\ chamada' = [chamada EXCEPT ![c] =
          [solicitacao_id |-> sid,
           resultado |-> CompararPropostas(db, sid, chamada[c].ordem, agora),
           visto     |-> db,
           repetida  |-> /\ pc[c] = "comparado"
                         /\ chamada[c].solicitacao_id = sid
                         /\ chamada[c].visto = db,
           ordem     |-> chamada[c].ordem]]
    /\ pc' = [pc EXCEPT ![c] = "comparado"]
    /\ UNCHANGED <<txn, lock>>

\* An INSERT that marks a proposal that arrives after the request's
\* prazo_resposta.
InserirPropostaAtrasada(d, sid, forn, valor, agora) ==
    [d EXCEPT !.propostas_cotacao =
        Append(@, [solicitacao_id |-> sid, fornecedor_id |-> forn,
                   valor_total |-> valor,
                   status |-> IF /\ sid \in Ids(d.solicitacoes_cotacao)
                                 /\ agora > d.solicitacoes_cotacao[sid].prazo_resposta
                              THEN "atrasada" ELSE "recebida",
                   data_proposta |-> agora])]

\* INSERT INTO propostas_cotacao with its data_proposta column:
\* data_proposta = datetime.now().isoformat(), read before the INSERT.
InserirPropostaEm(d, sid, forn, valor, agora) ==
    [d EXCEPT !.propostas_cotacao =
        Append(@, [solicitacao_id |-> sid, fornecedor_id |-> forn,
                   valor_total |-> valor, status |-> "recebida",
                   data_proposta |-> agora])]

\* registrar_proposta as one transaction, the time it read kept in the
\* row.  The times of two calls need not be ordered as their INSERTs: a
\* call reads the clock before it waits for the write lock, and the clock
\* is the wall clock.
RegistrarPropostaEm(agora, sid, forn, itens) ==
    /\ lock = Nenhum
    /\ Len(db.propostas_cotacao) < MaxPropostas
    /\ LET pid == Len(db.propostas_cotacao) + 1
           novo == InserirItensProposta(
                       InserirPropostaEm(db, sid, forn, ValorTotal(itens), agora),
                       pid, itens)
       IN /\ db' = novo
          /\ txn' = novo
    /\ UNCHANGED <<lock, pc, chamada>>

\* The writes between the calls: requests of one item, proposals of one
\* line (valor_total 0, 1 or 2).
ItensComparar ==
    {<<i>> : i \in [codigo : Codigos, descricao : Descricoes,
                    quantidade : Quantidades, unidade : Unidades]}

LinhasComparar ==
    {<<l>> : l \in [item_solicitacao_id : {1},
                    preco_unitario : Precos, preco_total : Totais]}
      \cup {<<[item_solicitacao_id |-> 1, preco_unitario |-> 0, preco_total |-> 0]>>}

NextComparar ==
    \/ \E itens \in ItensComparar : CriarSolicitacao(itens)
    \/ \E sid \in SolicitacaoIds, forn \in Fornecedores, itens \in LinhasComparar :
          RegistrarProposta(sid, forn, itens)
    \/ \E c \in Leitores, sid \in SolicitacaoIds, agora \in Relogio :
          Comparar(c, sid, agora)

\* The same with the time each registrar_proposta call read.
NextDesempate ==
    \/ \E itens \in ItensComparar : CriarSolicitacao(itens)
    \/ \E agora \in Relogio, sid \in SolicitacaoIds, forn \in Fornecedores,
          itens \in LinhasComparar : RegistrarPropostaEm(agora, sid, forn, itens)
    \/ \E c \in Leitores, sid \in SolicitacaoIds, agora \in Relogio :
          Comparar(c, sid, agora)

SpecDesempate == InitComparar /\ [][NextDesempate]_vars

SpecComparar == InitComparar /\ [][NextComparar]_vars

\* ------------------------------------------------- claims, third part
\* The ranking and the statistics of a returned value, without the time
\* of the call.
RankingEEstatisticas(r) ==
    IF "analise" \in DOMAIN r
    THEN [propostas |-> r.propostas, analise |-> r.analise]
    ELSE DictVazio

\* Caller c makes a comparar_propostas call in this step.
ComparaNestePasso(c) == chamada'[c] # chamada[c] \/ pc'[c] # pc[c]

C20_SemPropostasTotalZero ==
    [][\A c \in Leitores :
          (/\ ComparaNestePasso(c)
           /\ chamada'[c].solicitacao_id \in Ids(db.solicitacoes_cotacao)
           /\ PropostasDe(db, chamada'[c].solicitacao_id) = {}) =>
             /\ "analise" \in DOMAIN chamada'[c].resultado
             /\ "total_propostas" \in DOMAIN chamada'[c].resultado.analise
             /\ chamada'[c].resultado.analise.total_propostas = 0]_vars

\* The explicit empty result.
ResultadoVazio == [propostas |-> <<>>, analise |-> DictVazio]

\* C21: comparar_propostas tells a missing request from an empty one: for
\* an id that matches no stored request the call fails (it returns no
\* ranking and no analysis), for a stored request without proposals it
\* returns the explicit empty result.
C21_SolicitacaoInexistenteFalha ==
    [][\A c \in Leitores :
          ComparaNestePasso(c) =>
             LET sid == chamada'[c].solicitacao_id
                 r == chamada'[c].resultado
             IN /\ sid \notin Ids(db.solicitacoes_cotacao)
                     => "analise" \notin DOMAIN r
                /\ (sid \in Ids(db.solicitacoes_cotacao) /\ PropostasDe(db, sid) = {})
                     => r = ResultadoVazio]_vars

\* C22: for a stored request with at least one proposal the call returns
\* an analysis with economia_potencial = highest total - lowest total and
\* variacao_percentual = economia_potencial / highest total * 100, which is
\* 0 when there is one proposal; the division never fails.
C22_EconomiaEVariacao ==
    [][\A c \in Leitores :
          (/\ ComparaNestePasso(c)
           /\ chamada'[c].solicitacao_id \in Ids(db.solicitacoes_cotacao)
           /\ PropostasDe(db, chamada'[c].solicitacao_id) # {}) =>
             LET sid == chamada'[c].solicitacao_id
                 r == chamada'[c].resultado
             IN /\ "analise" \in DOMAIN r
                /\ r.analise.economia_potencial
                     = MaiorValor(db, sid) - MenorValor(db, sid)
                /\ r.analise.variacao_percentual
                     = Quociente(r.analise.economia_potencial * 100,
                                 MaiorValor(db, sid))
                /\ r.analise.variacao_percentual.den # 0
                /\ Cardinality(PropostasDe(db, sid)) = 1
                     => r.analise.variacao_percentual.num = 0]_vars

\* The ranking r.propostas and the analysis r.analise are those of the
\* proposals of request sid in the tables d.
RankingDaSolicitacao(d, sid, r) ==
    LET P == PropostasDe(d, sid)
        totais == {d.propostas_cotacao[p].valor_total : p \in P}
    IN /\ "analise" \in DOMAIN r
       /\ Len(r.propostas) = Cardinality(P)
       /\ {r.propostas[k].id : k \in 1..Len(r.propostas)} = P
       /\ \A k \in 1..Len(r.propostas) :
             r.propostas[k].valor_total
                = d.propostas_cotacao[r.propostas[k].id].valor_total
       /\ \A k \in 1..(Len(r.propostas) - 1) :
             r.propostas[k].valor_total <= r.propostas[k + 1].valor_total
       /\ r.analise.total_propostas = Cardinality(P)
       /\ r.analise.menor_preco.proposta_id \in P
       /\ r.analise.menor_preco.valor = Min(totais)
       /\ d.propostas_cotacao[r.analise.menor_preco.proposta_id].valor_total
             = Min(totais)
       /\ r.analise.maior_preco.valor = Max(totais)
       /\ r.analise.preco_medio
             = Quociente(SomaConj([p \in P |-> d.propostas_cotacao[p].valor_total], P),
                         Cardinality(P))

\* C23: comparar_propostas(r), for a request with at least one proposal,
\* ranks exactly the proposals whose request is r in ascending order of
\* valor_total; total_propostas is their number, menor_preco a proposal
\* of the minimum total, maior_preco one of the maximum total, and
\* preco_medio the sum of the totals divided by their number.
C23_RankingEEstatisticas ==
    [][\A c \in Leitores :
          (ComparaNestePasso(c) /\ PropostasDe(db, chamada'[c].solicitacao_id) # {})
             => RankingDaSolicitacao(db, chamada'[c].solicitacao_id,
                                     chamada'[c].resultado)]_vars

\* C24: when two proposals of a request have equal valor_total, the
\* ranking comparar_propostas returns has the one of the earlier
\* submission time (data_proposta) first.
C24_EmpateMaisAntigaPrimeiro ==
    [][\A c \in Leitores :
          (ComparaNestePasso(c) /\ "propostas" \in DOMAIN chamada'[c].resultado) =>
             LET l == chamada'[c].resultado.propostas
             IN \A j, k \in 1..Len(l) :
                   (/\ j < k
                    /\ l[j].valor_total = l[k].valor_total)
                      => db.propostas_cotacao[l[j].id].data_proposta
                            <= db.propostas_cotacao[l[k].id].data_proposta]_vars

\* ------------------------------------------------ claims, fourth part
\* Caller c chose a received proposal of a stored, open request.
EscolhaDeRecebida(c) ==
    /\ ChamadaBemFormada(c)
    /\ db.solicitacoes_cotacao[chamada[c].solicitacao_id].status = "enviada"
    /\ db.propostas_cotacao[chamada[c].proposta_id].status = "recebida"

\* C25: the economia_gerada stored with an award equals the highest
\* proposal total of the request minus the total of the proposal chosen,
\* taken when the award is committed, for whichever received proposal of
\* the request is chosen.
C25_EconomiaGerada ==
    [][\A c \in Chamadores :
          (SelRetornaTrue(c) /\ EscolhaDeRecebida(c)) =>
             LET sid == chamada[c].solicitacao_id
                 pid == chamada[c].proposta_id
                 linha == db'.comparacao_propostas[Len(db'.comparacao_propostas)]
             IN /\ Len(db'.comparacao_propostas) = Len(db.comparacao_propostas) + 1
                /\ linha.solicitacao_id = sid
                /\ linha.proposta_vencedora_id = pid
                /\ linha.economia_gerada
                     = MaiorValor(db, sid) - db.propostas_cotacao[pid].valor_total]_vars

\* C26: no two stored proposals have the same request and the same
\* supplier.
C26_UmaPropostaPorFornecedor ==
    \A p, q \in Ids(db.propostas_cotacao) :
        (/\ db.propostas_cotacao[p].solicitacao_id = db.propostas_cotacao[q].solicitacao_id
         /\ db.propostas_cotacao[p].solicitacao_id \in Ids(db.solicitacoes_cotacao)
         /\ db.propostas_cotacao[p].fornecedor_id = db.propostas_cotacao[q].fornecedor_id)
            => p = q

\* ------------------------------------ the calls with the time they read
\* Here every call is one step (one caller at a time); `chamada` is the
\* last call made: its name, the time datetime.now() gave it, the request
\* it named and the value it returned.
Instantes == {1, 2, 3}
PrazosDias == {1}
LinhasPrazo ==
    {<<[item_solicitacao_id |-> 1, preco_unitario |-> t, preco_total |-> t]>> :
        t \in {0, 1}}

\* INSERT INTO solicitacoes_cotacao with its two dates:
\* data_solicitacao = now, prazo_resposta = now + timedelta(days=prazo_dias).
InserirSolicitacaoEm(d, agora, prazo_dias) ==
    [d EXCEPT !.solicitacoes_cotacao =
        Append(@, [status |-> "enviada", data_solicitacao |-> agora,
                   prazo_resposta |-> agora + prazo_dias])]

UltimaChamada(operacao, agora, sid, retorno) ==
    [operacao |-> operacao, agora |-> agora, solicitacao_id |-> sid,
     retorno |-> retorno]

InitPrazo ==
    /\ db = TabelasVazias
    /\ txn = TabelasVazias
    /\ lock = Nenhum
    /\ pc = [c \in Chamadores |-> "ocioso"]
    /\ chamada = UltimaChamada(Nenhum, 0, 0, Nenhum)

\* criar_solicitacao(numero_edital, descricao, itens, prazo_dias) at time
\* `agora`; returns cursor.lastrowid.
CriarSolicitacaoEm(agora, prazo_dias, itens) ==
    /\ lock = Nenhum
    /\ Len(db.solicitacoes_cotacao) < MaxSolicitacoes
    /\ LET sid == Len(db.solicitacoes_cotacao) + 1
           novo == InserirItens(InserirSolicitacaoEm(db, agora, prazo_dias),
                                sid, itens)
       IN /\ db' = novo
          /\ txn' = novo
          /\ chamada' = UltimaChamada("criar_solicitacao", agora, sid, sid)
    /\ UNCHANGED <<lock, pc>>

\* registrar_proposta(solicitacao_id, fornecedor_id, itens_proposta) at
\* time `agora`; returns cursor.lastrowid of the proposal's INSERT.
RegistrarPropostaComRetorno(agora, sid, forn, itens) ==
    /\ lock = Nenhum
    /\ Len(db.propostas_cotacao) < MaxPropostas
    /\ LET pid == Len(db.propostas_cotacao) + 1
           novo == InserirItensProposta(
                       InserirPropostaEm(db, sid, forn, ValorTotal(itens), agora),
                       pid, itens)
       IN /\ db' = novo
          /\ txn' = novo
          /\ chamada' = UltimaChamada("registrar_proposta", agora, sid, pid)
    /\ UNCHANGED <<lock, pc>>

\* selecionar_vencedora(solicitacao_id, proposta_id) at time `agora`, as
\* one transaction: False when comparar_propostas returned {}, else the
\* INSERT, the three UPDATEs, the commit and True.
SelecionarVencedoraComRetorno(agora, sid, pid) ==
    /\ lock = Nenhum
    /\ Len(db.comparacao_propostas) < MaxComparacoes
    /\ IF CompararFalha(db, sid)
       THEN /\ chamada' = UltimaChamada("selecionar_vencedora", agora, sid, FALSE)
            /\ UNCHANGED <<db, txn>>
       ELSE /\ db' = Confirmar(db,
                        AtualizarSolicitacao(
                           AtualizarDemais(
                              AtualizarVencedora(
                                 InserirComparacao(db, sid, pid,
                                                   EconomiaDaSelecao(db, sid)),
                                 pid),
                              sid, pid),
                           sid))
            /\ txn' = db'
            /\ chamada' = UltimaChamada("selecionar_vencedora", agora, sid, TRUE)
    /\ UNCHANGED <<lock, pc>>

NextPrazo ==
    \/ \E agora \in Instantes, prazo_dias \in PrazosDias, itens \in ItensComparar :
          CriarSolicitacaoEm(agora, prazo_dias, itens)
    \/ \E agora \in Instantes, sid \in SolicitacaoIds, forn \in Fornecedores,
          itens \in LinhasPrazo :
          RegistrarPropostaComRetorno(agora, sid, forn, itens)
    \/ \E agora \in Instantes, sid \in SolicitacaoIds, pid \in PropostaIds :
          SelecionarVencedoraComRetorno(agora, sid, pid)

SpecPrazo == InitPrazo /\ [][NextPrazo]_vars

DecisoesDe(d, sid) ==
    SelectSeq(d.comparacao_propostas, LAMBDA l : l.solicitacao_id = sid)

\* C28: a selecionar_vencedora(r, p) call for a stored request r that
\* returns True leaves every other stored request as it was: its status, the status of each of its
\* proposals and its award rows, for every p (a proposal of another
\* request included).
C28_OutrasSolicitacoesIntactas ==
    [][\A c \in Chamadores :
          (/\ SelRetornaTrue(c)
           /\ chamada[c].solicitacao_id \in Ids(db.solicitacoes_cotacao)) =>
             \A s \in Ids(db.solicitacoes_cotacao) \ {chamada[c].solicitacao_id} :
                /\ db'.solicitacoes_cotacao[s] = db.solicitacoes_cotacao[s]
                /\ \A q \in PropostasDe(db, s) :
                      db'.propostas_cotacao[q] = db.propostas_cotacao[q]
                /\ DecisoesDe(db', s) = DecisoesDe(db, s)]_vars

\* ------------------------------------------------- payment_tracking.py
\* class PaymentTracking over its tables pagamentos, parcelas_pagamento
\* and historico_pagamentos, with the same connection discipline: `db`
\* the committed tables, `txn` the working copy of the connection that
\* holds the write lock.  criar_pagamento is one transaction;
\* registrar_pagamento_parcela runs statement by statement for two
\* callers.
MaxPagamentos == 2
MaxParcelas == 2
MaxHistorico == 3

\* dados.get('numero_parcelas', 1): nothing checks its sign.
NumerosParcelas == (-1)..MaxParcelas
ParcelaIds == 1..(MaxPagamentos * MaxParcelas)

TabelasPagamentosVazias ==
    [pagamentos |-> <<>>, parcelas_pagamento |-> <<>>,
     historico_pagamentos |-> <<>>]

ParcelasDe(d, pag) ==
    {q \in Ids(d.parcelas_pagamento) : d.parcelas_pagamento[q].pagamento_id = pag}

\* INSERT INTO pagamentos: status takes its DEFAULT 'pendente'.
InserirPagamento(d, num_parcelas) ==
    [d EXCEPT !.pagamentos =
        Append(@, [numero_parcelas |-> num_parcelas, status |-> "pendente"])]

\* _criar_parcelas: for i in range(1, num_parcelas + 1): INSERT INTO
\* parcelas_pagamento, status taking its DEFAULT 'pendente'.
CriarParcelas(d, pagamento_id, num_parcelas) ==
    [d EXCEPT !.parcelas_pagamento =
        @ \o [i \in 1..num_parcelas |->
                [pagamento_id |-> pagamento_id, numero_parcela |-> i,
                 status |-> "pendente"]]]

\* UPDATE parcelas_pagamento SET ..., status = 'paga' WHERE id = ?
AtualizarParcela(d, parcela_id) ==
    [d EXCEPT !.parcelas_pagamento =
        [q \in DOMAIN @ |->
            IF q = parcela_id THEN [@[q] EXCEPT !.status = "paga"] ELSE @[q]]]

\* INSERT INTO historico_pagamentos
InserirHistorico(d, parcela_id) ==
    [d EXCEPT !.historico_pagamentos =
        Append(@, [parcela_id |-> parcela_id, acao |-> "pagamento_realizado"])]

\* SELECT pagamento_id FROM parcelas_pagamento WHERE id = ?
\* (NULL when there is no such row, here 0: ids start at 1, and like
\* NULL it equals the pagamento_id of no row).
PagamentoDaParcela(d, parcela_id) ==
    IF parcela_id \in Ids(d.parcelas_pagamento)
    THEN d.parcelas_pagamento[parcela_id].pagamento_id
    ELSE 0

\* A check that is satisfied by one paid installment.
AlgumaPaga(d, parcela_id) ==
    \E q \in ParcelasDe(d, PagamentoDaParcela(d, parcela_id)) :
        d.parcelas_pagamento[q].status = "paga"

\* SELECT COUNT(*) as total, SUM(CASE WHEN status = 'paga' ...) as pagas
\* ...; row['total'] == row['pagas'].  Over no rows total is 0 and pagas
\* is NULL, and 0 == None is False.
TodasPagas(d, parcela_id) ==
    LET P == ParcelasDe(d, PagamentoDaParcela(d, parcela_id))
        total == Cardinality(P)
        pagas == Cardinality({q \in P : d.parcelas_pagamento[q].status = "paga"})
    IN total # 0 /\ total = pagas

\* UPDATE pagamentos SET status = 'pago'
\* WHERE id = (SELECT pagamento_id FROM parcelas_pagamento WHERE id = ?)
AtualizarPagamento(d, parcela_id) ==
    [d EXCEPT !.pagamentos =
        [m \in DOMAIN @ |->
            IF m = PagamentoDaParcela(d, parcela_id)
            THEN [@[m] EXCEPT !.status = "pago"] ELSE @[m]]]

ChamadaParcela == [parcela_id |-> 0]

InitPagamentos ==
    /\ db = TabelasPagamentosVazias
    /\ txn = TabelasPagamentosVazias
    /\ lock = Nenhum
    /\ pc = [c \in Chamadores |-> "ocioso"]
    /\ chamada = [c \in Chamadores |-> ChamadaParcela]

\* criar_pagamento(dados): the payment row and its installments in one
\* transaction.  valor_total / num_parcelas raises ZeroDivisionError for
\* 0 installments: the call returns None and the payment row is dropped
\* with the connection.  A negative number gives an empty range and a
\* payment without installments.
CriarPagamento(num_parcelas) ==
    /\ lock = Nenhum
    /\ Len(db.pagamentos) < MaxPagamentos
    /\ LET pagamento_id == Len(db.pagamentos) + 1
           novo == IF num_parcelas = 0
                   THEN Descartar(db, InserirPagamento(db, num_parcelas))
                   ELSE Confirmar(db, CriarParcelas(InserirPagamento(db, num_parcelas),
                                                    pagamento_id, num_parcelas))
       IN /\ db' = novo
          /\ txn' = novo
    /\ UNCHANGED <<lock, pc, chamada>>

\* registrar_pagamento_parcela(parcela_id, dados), first statement: the
\* UPDATE of the installment opens the transaction and takes the write
\* lock.
RegAtualizarParcela(c, parcela_id) ==
    /\ pc[c] = "ocioso"
    /\ lock = Nenhum
    /\ Len(db.historico_pagamentos) < MaxHistorico
    /\ lock' = c
    /\ txn' = AtualizarParcela(db, parcela_id)
    /\ pc' = [pc EXCEPT ![c] = "historico"]
    /\ chamada' = [chamada EXCEPT ![c] = [parcela_id |-> parcela_id]]
    /\ UNCHANGED db

RegHistorico(c) ==
    /\ pc[c] = "historico"
    /\ txn' = InserirHistorico(txn, chamada[c].parcela_id)
    /\ pc' = [pc EXCEPT ![c] = "verificar"]
    /\ UNCHANGED <<db, lock, chamada>>

\* The SELECT of the two counts and, when they are equal, the UPDATE of
\* the payment.
RegVerificar(c) ==
    /\ pc[c] = "verificar"
    /\ txn' = IF TodasPagas(txn, chamada[c].parcela_id)
              THEN AtualizarPagamento(txn, chamada[c].parcela_id)
              ELSE txn
    /\ pc' = [pc EXCEPT ![c] = "commit"]
    /\ UNCHANGED <<db, lock, chamada>>

\* conn.commit(); return True
RegCommit(c) ==
    /\ pc[c] = "commit"
    /\ db' = Confirmar(db, txn)
    /\ txn' = db'
    /\ lock' = Nenhum
    /\ pc' = [pc EXCEPT ![c] = "True"]
    /\ UNCHANGED chamada

\* except Exception: return False, at any statement; finally:
\* conn.close() drops the uncommitted writes and the lock.
RegErro(c) ==
    /\ pc[c] \in {"historico", "verificar", "commit"}
    /\ db' = Descartar(db, txn)
    /\ txn' = db'
    /\ lock' = Nenhum
    /\ pc' = [pc EXCEPT ![c] = "False"]
    /\ UNCHANGED chamada

\* The caller has the returned value and is free to call again.
RegFim(c) ==
    /\ pc[c] \in {"True", "False"}
    /\ pc' = [pc EXCEPT ![c] = "ocioso"]
    /\ chamada' = [chamada EXCEPT ![c] = ChamadaParcela]
    /\ UNCHANGED <<db, txn, lock>>

NextPagamentos ==
    \/ \E num_parcelas \in NumerosParcelas : CriarPagamento(num_parcelas)
    \/ \E c \in Chamadores, parcela_id \in ParcelaIds : RegAtualizarParcela(c, parcela_id)
    \/ \E c \in Chamadores : RegHistorico(c)
    \/ \E c \in Chamadores : RegVerificar(c)
    \/ \E c \in Chamadores : RegCommit(c)
    \/ \E c \in Chamadores : RegErro(c)
    \/ \E c \in Chamadores : RegFim(c)

SpecPagamentos == InitPagamentos /\ [][NextPagamentos]_vars

\* Payment m is 'pago' exactly when it has an installment and all its
\* installments are 'paga'.
PagoSseTodasPagas(d, m) ==
    d.pagamentos[m].status = "pago"
       <=> /\ ParcelasDe(d, m) # {}
           /\ \A q \in ParcelasDe(d, m) : d.parcelas_pagamento[q].status = "paga"

\* C29: in the committed tables a payment is 'pago' if and only if it has
\* at least one installment and every installment of it is 'paga'; a
\* registrar_pagamento_parcela call changes the status of no payment
\* other than the one of its installment; and a payment that is 'pago'
\* stays 'pago'.
C29_PagoSseTodasPagas ==
    /\ [](\A m \in Ids(db.pagamentos) : PagoSseTodasPagas(db, m))
    /\ [][\A m \in Ids(db.pagamentos) :
             /\ db.pagamentos[m].status = "pago" => db'.pagamentos[m].status = "pago"
             /\ db'.pagamentos[m].status # db.pagamentos[m].status =>
                   \E c \in Chamadores :
                      /\ pc[c] = "commit" /\ pc'[c] = "True"
                      /\ PagamentoDaParcela(db, chamada[c].parcela_id) = m]_vars

\* C29 witness: a payment of two installments, both paid, is 'pago',
\* while another payment with one of its two installments paid is still
\* 'pendente'.
C29_Witness ==
    \E m, n \in Ids(db.pagamentos) :
        /\ Cardinality(ParcelasDe(db, m)) = 2
        /\ \A q \in ParcelasDe(db, m) : db.parcelas_pagamento[q].status = "paga"
        /\ db.pagamentos[m].status = "pago"
        /\ Cardinality(ParcelasDe(db, n)) = 2
        /\ \E q \in ParcelasDe(db, n) : db.parcelas_pagamento[q].status = "paga"
        /\ \E q \in ParcelasDe(db, n) : db.parcelas_pagamento[q].status = "pendente"
        /\ db.pagamentos[n].status = "pendente"

\* -------------------------------------------------------------- auth.py
\* class AuthSystem over its tables usuarios and sessoes (log_acessos is
\* written by _log_acesso alone and read by no method modelled here, so it
\* is left out).  Every method opens its own connection and each write
\* below is committed before the next step; `txn` follows `db` and `lock`
\* stays free.  db.CURRENT_TIMESTAMP is the clock that both
\* datetime.utcnow() and SQLite's CURRENT_TIMESTAMP read.  pc[c] is the
\* statement caller c is at, chamada[c] the call c made last with the
\* value it returned.
MaxUsuarios == 2
MaxSessoes == 2
MaxRelogio == 1

\* JWT_EXPIRATION_HOURS, in ticks of the clock.
JWT_EXPIRATION_HOURS == 1

Senhas == {"admin123", "senha123"}
UsuarioIds == 1..MaxUsuarios

\* _hash_senha: hashlib.sha256(senha.encode()).hexdigest()
HashSenha(senha) == <<"sha256", senha>>

\* jwt.encode(token_payload, JWT_SECRET): a function of the payload, whose
\* exp claim is the expiry time.
Token(usuario_id, exp) == [usuario_id |-> usuario_id, exp |-> exp]

\* The tokens a caller can present: a token is signed with JWT_SECRET, so
\* the ones login has issued.
TokensEmitidos(d) == {d.sessoes[s].token : s \in Ids(d.sessoes)}

\* After __init__: the tables and the default admin user.
TabelasAuth ==
    [usuarios |-> <<[senha_hash |-> HashSenha("admin123"), ativo |-> TRUE]>>,
     sessoes |-> <<>>,
     CURRENT_TIMESTAMP |-> 0]

Retorno(tipo) == [tipo |-> tipo]
ChamadaAuth(operacao, usuario_id, token, retorno) ==
    [operacao |-> operacao, usuario_id |-> usuario_id, token |-> token,
     retorno |-> retorno]

InitAuth ==
    /\ db = TabelasAuth
    /\ txn = TabelasAuth
    /\ lock = Nenhum
    /\ pc = [c \in Chamadores |-> "ocioso"]
    /\ chamada = [c \in Chamadores |->
                     ChamadaAuth(Nenhum, 0, Token(0, 0), Retorno(Nenhum))]

\* criar_usuario: INSERT INTO usuarios, ativo taking its DEFAULT 1.
CriarUsuario(senha) ==
    /\ Len(db.usuarios) < MaxUsuarios
    /\ db' = [db EXCEPT !.usuarios =
                 Append(@, [senha_hash |-> HashSenha(senha), ativo |-> TRUE])]
    /\ txn' = db'
    /\ UNCHANGED <<lock, pc, chamada>>

\* UPDATE sessoes SET ativo = 0 WHERE token = ?
InvalidarToken(d, token) ==
    [d EXCEPT !.sessoes =
        [s \in DOMAIN @ |->
            IF @[s].token = token THEN [@[s] EXCEPT !.ativo = FALSE] ELSE @[s]]]

\* An UPDATE of the sessions that changes no row.
ManterSessoes(d, usuario_id) == d

\* UPDATE sessoes SET ativo = 0 WHERE usuario_id = ?
InvalidarSessoes(d, usuario_id) ==
    [d EXCEPT !.sessoes =
        [s \in DOMAIN @ |->
            IF @[s].usuario_id = usuario_id
            THEN [@[s] EXCEPT !.ativo = FALSE] ELSE @[s]]]

\* login, the SELECT of the user by username and senha_hash and the two
\* checks on its row: ValueError when no row matches or the user is not
\* ativo, otherwise on to the INSERT of the session.
LoginSelect(c, usuario_id, senha) ==
    /\ pc[c] = "ocioso"
    /\ IF /\ usuario_id \in Ids(db.usuarios)
          /\ db.usuarios[usuario_id].senha_hash = HashSenha(senha)
          /\ db.usuarios[usuario_id].ativo
       THEN /\ pc' = [pc EXCEPT ![c] = "inserir"]
            /\ chamada' = [chamada EXCEPT ![c] =
                  ChamadaAuth("login", usuario_id, Token(0, 0), Retorno("pendente"))]
       ELSE /\ pc' = pc
            /\ chamada' = [chamada EXCEPT ![c] =
                  ChamadaAuth("login", usuario_id, Token(0, 0), Retorno("ValueError"))]
    /\ UNCHANGED <<db, txn, lock>>

\* login, the rest: the token is encoded with exp = utcnow() + 24 hours,
\* the session row is inserted (token is UNIQUE: a second row with the
\* same token raises IntegrityError) and committed, the token returned.
LoginInserir(c) ==
    /\ pc[c] = "inserir"
    /\ Len(db.sessoes) < MaxSessoes
    /\ LET token == Token(chamada[c].usuario_id,
                          db.CURRENT_TIMESTAMP + JWT_EXPIRATION_HOURS)
       IN IF \E s \in Ids(db.sessoes) : db.sessoes[s].token = token
          THEN /\ chamada' = [chamada EXCEPT ![c].retorno = Retorno("IntegrityError")]
               /\ UNCHANGED <<db, txn>>
          ELSE /\ db' = [db EXCEPT !.sessoes =
                           Append(@, [usuario_id |-> chamada[c].usuario_id,
                                      token |-> token,
                                      data_expiracao |-> token.exp,
                                      ativo |-> TRUE])]
               /\ txn' = db'
               /\ chamada' = [chamada EXCEPT ![c].token = token,
                                             ![c].retorno = Retorno("token")]
    /\ pc' = [pc EXCEPT ![c] = "ocioso"]
    /\ UNCHANGED lock

\* verificar_token: jwt.decode raises ExpiredSignatureError once exp has
\* passed; then SELECT ativo FROM sessoes WHERE token = ? AND
\* data_expiracao > CURRENT_TIMESTAMP; None without such a row or when
\* the row is not ativo, else the payload.
TokenAceito(d, token) ==
    /\ token.exp > d.CURRENT_TIMESTAMP
    /\ \E s \in Ids(d.sessoes) :
          /\ d.sessoes[s].token = token
          /\ d.sessoes[s].data_expiracao > d.CURRENT_TIMESTAMP
          /\ d.sessoes[s].ativo

VerificarToken(c, token) ==
    /\ pc[c] = "ocioso"
    /\ chamada' = [chamada EXCEPT ![c] =
          ChamadaAuth("verificar_token", token.usuario_id, token,
                      IF TokenAceito(db, token)
                      THEN Retorno("payload") ELSE Retorno("None"))]
    /\ UNCHANGED <<db, txn, lock, pc>>

\* logout(token): the UPDATE and its commit.
Logout(c, token) ==
    /\ pc[c] = "ocioso"
    /\ db' = InvalidarToken(db, token)
    /\ txn' = db'
    /\ chamada' = [chamada EXCEPT ![c] =
          ChamadaAuth("logout", token.usuario_id, token, Retorno("None"))]
    /\ UNCHANGED <<lock, pc>>

\* alterar_senha, first commit: ValueError when the old password does not
\* match, else UPDATE usuarios SET senha_hash and commit.
AlterarSenhaSenha(c, usuario_id, senha_antiga, senha_nova) ==
    /\ pc[c] = "ocioso"
    /\ IF /\ usuario_id \in Ids(db.usuarios)
          /\ db.usuarios[usuario_id].senha_hash = HashSenha(senha_antiga)
       THEN /\ db' = [db EXCEPT !.usuarios[usuario_id].senha_hash =
                                    HashSenha(senha_nova)]
            /\ pc' = [pc EXCEPT ![c] = "sessoes"]
            /\ chamada' = [chamada EXCEPT ![c] =
                  ChamadaAuth("alterar_senha", usuario_id, Token(0, 0),
                              Retorno("pendente"))]
       ELSE /\ db' = db
            /\ pc' = pc
            /\ chamada' = [chamada EXCEPT ![c] =
                  ChamadaAuth("alterar_senha", usuario_id, Token(0, 0),
                              Retorno("ValueError"))]
    /\ txn' = db'
    /\ UNCHANGED lock

\* alterar_senha, second commit: the sessions of the user are invalidated.
AlterarSenhaSessoes(c) ==
    /\ pc[c] = "sessoes"
    /\ db' = InvalidarSessoes(db, chamada[c].usuario_id)
    /\ txn' = db'
    /\ pc' = [pc EXCEPT ![c] = "ocioso"]
    /\ chamada' = [chamada EXCEPT ![c].retorno = Retorno("None")]
    /\ UNCHANGED lock

\* desativar_usuario: UPDATE usuarios SET ativo = 0, UPDATE sessoes SET
\* ativo = 0, one commit.
DesativarUsuario(c, usuario_id) ==
    /\ pc[c] = "ocioso"
    /\ db' = InvalidarSessoes(
                [db EXCEPT !.usuarios =
                    [u \in DOMAIN @ |->
                        IF u = usuario_id THEN [@[u] EXCEPT !.ativo = FALSE]
                        ELSE @[u]]],
                usuario_id)
    /\ txn' = db'
    /\ chamada' = [chamada EXCEPT ![c] =
          ChamadaAuth("desativar_usuario", usuario_id, Token(0, 0),
                      Retorno("None"))]
    /\ UNCHANGED <<lock, pc>>

\* The clock advances.
PassarTempo ==
    /\ db.CURRENT_TIMESTAMP < MaxRelogio
    /\ db' = [db EXCEPT !.CURRENT_TIMESTAMP = @ + 1]
    /\ txn' = db'
    /\ UNCHANGED <<lock, pc, chamada>>

NextAuth ==
    \/ \E senha \in Senhas : CriarUsuario(senha)
    \/ \E c \in Chamadores, usuario_id \in UsuarioIds, senha \in Senhas :
          LoginSelect(c, usuario_id, senha)
    \/ \E c \in Chamadores : LoginInserir(c)
    \/ \E c \in Chamadores, token \in TokensEmitidos(db) : VerificarToken(c, token)
    \/ \E c \in Chamadores, token \in TokensEmitidos(db) : Logout(c, token)
    \/ \E c \in Chamadores, usuario_id \in UsuarioIds, antiga, nova \in Senhas :
          AlterarSenhaSenha(c, usuario_id, antiga, nova)
    \/ \E c \in Chamadores : AlterarSenhaSessoes(c)
    \/ \E c \in Chamadores, usuario_id \in UsuarioIds : DesativarUsuario(c, usuario_id)
    \/ PassarTempo

SpecAuth == InitAuth /\ [][NextAuth]_vars

\* Caller c makes a verificar_token call in this step.
VerificaNestePasso(c) ==
    /\ chamada'[c] # chamada[c]
    /\ chamada'[c].operacao = "verificar_token"

\* Caller c returns from a call that ends sessions in this step: a
\* logout, the second commit of alterar_senha, or desativar_usuario.
RevogaNestePasso(c) ==
    /\ chamada'[c] # chamada[c]
    /\ pc'[c] = "ocioso"
    /\ chamada'[c].retorno = Retorno("None")
    /\ chamada'[c].operacao \in {"logout", "alterar_senha", "desativar_usuario"}

\* The session rows the call of c is about: the one of its token for a
\* logout, those of its user otherwise.
SessoesDaChamada(d, ch) ==
    {s \in Ids(d.sessoes) :
        IF ch.operacao = "logout" THEN d.sessoes[s].token = ch.token
        ELSE d.sessoes[s].usuario_id = ch.usuario_id}

====
